---- MODULE Spec2Model ----
(***************************************************************************)
(* MarketLens: the desktop window (desktop_stock_app.py) and the web       *)
(* dashboard (stock_app.py) run one analysis request at a time.  The model *)
(* follows one process of either front end through its requests: the      *)
(* market-data gate, the news fetches, the sentiment aggregation, the      *)
(* recommendation calls and the event analysis.  The analysis library is   *)
(* external; what its functions return on a request is the request's       *)
(* environment `env`, and the calls made to it are logged in `calls`.      *)
(***************************************************************************)
EXTENDS Integers, Sequences, FiniteSets, TLC

VARIABLES
    app,                    \* "desktop" | "web": which front end this process is
    APP_NEWS_API_KEY,       \* web: NEWS_API_KEY is set (truthy)
    APP_GNEWS_API_KEY,      \* web: GNEWS_API_KEY is set (truthy)
    newsapi_client_gui,     \* desktop: the module-level client was initialized
    pc,                     \* position of the request handler
    ticker_input_raw,       \* text of the ticker entry / text input
    ticker_symbol,          \* ticker_symbol / ticker_symbol_processed
    env,                    \* what the collaborators return during this request
    newsapi_sample,         \* (newsapi_sentiment, newsapi_titles)
    second_sample,          \* (rss_sentiment, rss_titles) / (gnews_sentiment, gnews_titles)
    combined_sentiments,
    combined_news_titles,
    overall_news_sentiment,
    shown_titles,           \* the title sample written to the display
    output_text,            \* sections written to the text area / page
    event_signal,           \* event_signal, the result of generate_signal(impact)
    calls,                  \* collaborator calls made by the current request
    ref                     \* history variable: a finished request kept for comparison

config  == <<app, APP_NEWS_API_KEY, APP_GNEWS_API_KEY>>
request == <<ticker_input_raw, ticker_symbol, env>>
samples == <<newsapi_sample, second_sample>>
aggr    == <<combined_sentiments, combined_news_titles, overall_news_sentiment>>
display == <<shown_titles, output_text>>
vars    == <<config, newsapi_client_gui, pc, request, samples, aggr, display,
             event_signal, calls, ref>>

-----------------------------------------------------------------------------
(* Bounds of the model *)

\* longest title list a news fetcher returns
MaxTitles == 2
\* most articles in one NewsAPI response
MaxArticles == 2

-----------------------------------------------------------------------------
(* Optional[float]: None is <<>>, a float is an exact fraction <<n, d>>, d > 0, *)
(* in lowest terms.                                                             *)

None == <<>>

Abs(x) == IF x < 0 THEN -x ELSE x

Min(a, b) == IF a < b THEN a ELSE b

RECURSIVE GCD(_, _)
GCD(a, b) == IF b = 0 THEN a ELSE GCD(b, a % b)

Rat(n, d) ==
    LET g == GCD(Abs(n), d) IN
    IF n = 0 THEN <<0, 1>> ELSE <<n \div g, d \div g>>

RatAdd(x, y) == Rat(x[1] * y[2] + y[1] * x[2], x[2] * y[2])

RatDivInt(x, k) == Rat(x[1], x[2] * k)

RECURSIVE SumRat(_)
SumRat(s) == IF s = <<>> THEN <<0, 1>> ELSE RatAdd(Head(s), SumRat(Tail(s)))

\* a mean that forgets to divide by the number of values
MeanUndivided(s) == SumRat(s)

\* np.mean of a non-empty list
Mean(s) == RatDivInt(SumRat(s), Len(s))

-----------------------------------------------------------------------------
(* Sequences *)

SeqsUpTo(S, n) == UNION {[1..k -> S] : k \in 0..n}

Range(s) == {s[i] : i \in 1..Len(s)}

RECURSIVE Concat(_)
Concat(ss) == IF ss = <<>> THEN <<>> ELSE Head(ss) \o Concat(Tail(ss))

Reverse(s) == [i \in 1..Len(s) |-> s[Len(s) + 1 - i]]

NoDuplicates(s) == \A i, j \in 1..Len(s) : s[i] = s[j] => i = j

-----------------------------------------------------------------------------
(* Ticker text: a string is a sequence of one-character strings *)

Whitespace == {" "}

UpperChar(c) ==
    CASE c = "g" -> "G"
      [] c = "t" -> "T"
      [] c = "n" -> "N"
      [] c = "s" -> "S"
      [] OTHER -> c

\* str.upper()
Upper(s) == [i \in 1..Len(s) |-> UpperChar(s[i])]

RECURSIVE LStrip(_)
LStrip(s) == IF s # <<>> /\ Head(s) \in Whitespace THEN LStrip(Tail(s)) ELSE s

\* a variant that strips leading whitespace only
StripLeft(s) == LStrip(s)

\* str.strip()
Strip(s) == Reverse(LStrip(Reverse(LStrip(s))))

\* str.endswith(".NS")
EndsWithNS(s) ==
    /\ Len(s) >= 3
    /\ SubSeq(s, Len(s) - 2, Len(s)) = <<".", "N", "S">>

RawInputs ==
    { <<>>, <<" ", " ">>, <<" ", "g", " ">>, <<"t", ".", "n", "s">> }

-----------------------------------------------------------------------------
(* What the collaborators can return *)

TitlePool == {"a", "b"}

TitleLists == SeqsUpTo(TitlePool, MaxTitles)

ScorePool == {Rat(-1, 1), Rat(1, 1)}

\* a fetcher's (sentiment, titles) pair
Sample(s, t) == [sentiment |-> s, titles |-> t]

NoData == Sample(None, <<>>)

\* what an external news fetcher may hand back
Samples == {Sample(s, t) : s \in ScorePool \cup {None}, t \in TitleLists}

\* article['title']: a string, a missing key, or a null value
Missing == "<missing>"
Null == "<null>"

\* title, whether a description is present, and what analyze_sentiment does
\* on the article's text
ArticlePool ==
    { [title |-> "a",     desc |-> TRUE,  scorer_raises |-> FALSE, score |-> Rat(1, 1)],
      [title |-> "b",     desc |-> FALSE, scorer_raises |-> FALSE, score |-> Rat(-1, 1)],
      [title |-> Missing, desc |-> FALSE, scorer_raises |-> FALSE, score |-> Rat(1, 1)],
      [title |-> Null,    desc |-> TRUE,  scorer_raises |-> FALSE, score |-> Rat(1, 1)],
      [title |-> "b",     desc |-> TRUE,  scorer_raises |-> TRUE,  score |-> Rat(1, 1)] }

Response(k, as) == [kind |-> k, articles |-> as]

\* newsapi_client_gui.get_everything(...): raises NewsAPIException, raises
\* something else, returns a falsy value, returns a dict without 'articles',
\* or returns a dict with a list of articles
ClientResponses ==
    {Response(k, <<>>) : k \in {"NewsAPIException", "Exception", "falsy", "no_articles_key"}}
    \cup {Response("ok", as) : as \in SeqsUpTo(ArticlePool, MaxArticles)}

\* get_stock_data: (historical_data, ..., error)
MarketData ==
    { [error |-> TRUE,  history |-> "None"],
      [error |-> FALSE, history |-> "None"],
      [error |-> FALSE, history |-> "empty"],
      [error |-> FALSE, history |-> "bars"] }

\* the impact dictionary of assess_impact: a key that is absent reads Missing
ImpactLevels == {"positive", "negative", "neutral"}

Impacts ==
    [ short_term : ImpactLevels \cup {"unrecognized", Missing},
      long_term : {"positive", Missing} ]

DefaultImpact == [short_term |-> "neutral", long_term |-> Missing]

\* event_signal before generate_signal returned
NoSignal == "<unbound>"

Env(d, r, n, s, i) ==
    [data |-> d, resp |-> r, newsapi |-> n, second |-> s, impact |-> i]

DefaultResponse == Response("falsy", <<>>)

EnvsOf(a, Ds, Rs, Ss, Is) ==
    IF a = "desktop"
    THEN {Env(d, r, NoData, s, i) : d \in Ds, r \in Rs, s \in Ss, i \in Is}
    ELSE {Env(d, DefaultResponse, n, s, i) : d \in Ds, n \in Ss, s \in Ss, i \in Is}

-----------------------------------------------------------------------------
(* The desktop NewsAPI wrapper, _fetch_news_from_newsapi_for_gui *)

\* the filter of the comprehension: article.get('title') or article.get('description')
Scored(article) == article.title \in TitlePool \/ article.desc

\* analyze_sentiment(article.get('title', '') + " " + ...): a null title cannot
\* be concatenated, and the scorer itself may raise
ScoringRaises(article) ==
    Scored(article) /\ (article.title = Null \/ article.scorer_raises)

\* article.get('title', 'No Title')
TitleOf(article) == IF article.title = Missing THEN "No Title" ELSE article.title

SelectScores(as) ==
    LET RECURSIVE Sel(_)
        Sel(s) == IF s = <<>> THEN <<>>
                  ELSE IF Scored(Head(s)) THEN <<Head(s).score>> \o Sel(Tail(s))
                  ELSE Sel(Tail(s))
    IN Sel(as)

Normal(sample) == [exc |-> "none", sample |-> sample]
Raises(e) == [exc |-> e, sample |-> NoData]

\* a variant that hands the titles back although no article was scored
ArticlesResultLeaky(as) ==
    IF \E i \in 1..Len(as) : ScoringRaises(as[i]) THEN Raises("Exception")
    ELSE IF SelectScores(as) # <<>>
         THEN Normal(Sample(Mean(SelectScores(as)), [i \in 1..Len(as) |-> TitleOf(as[i])]))
         ELSE Normal(Sample(None, [i \in 1..Len(as) |-> TitleOf(as[i])]))

\* a non-empty article list: score the articles, average, collect the titles
ArticlesResult(as) ==
    IF \E i \in 1..Len(as) : ScoringRaises(as[i]) THEN Raises("Exception")
    ELSE IF SelectScores(as) # <<>>
         THEN Normal(Sample(Mean(SelectScores(as)), [i \in 1..Len(as) |-> TitleOf(as[i])]))
         ELSE Normal(NoData)

\* the body of the try block
TryBody(resp) ==
    CASE resp.kind = "NewsAPIException" -> Raises("NewsAPIException")
      [] resp.kind = "Exception"        -> Raises("Exception")
      [] resp.kind = "falsy"            -> Normal(NoData)
      [] resp.kind = "no_articles_key"  -> Raises("KeyError")
      [] resp.kind = "ok" ->
            IF resp.articles = <<>> THEN Normal(NoData) ELSE ArticlesResult(resp.articles)

Returned(sample) == [raised |-> FALSE, sample |-> sample]
Propagated == [raised |-> TRUE, sample |-> NoData]

\* a variant without the generic handler
ExceptHandlersNarrow(exc) ==
    IF exc = "NewsAPIException" THEN Returned(NoData) ELSE Propagated

\* except NewsAPIException ... except Exception ...
ExceptHandlers(exc) ==
    IF exc = "NewsAPIException" THEN Returned(NoData) ELSE Returned(NoData)

FetchNewsFromNewsapiForGui(client, resp) ==
    IF ~client THEN Returned(NoData)
    ELSE IF TryBody(resp).exc = "none" THEN Returned(TryBody(resp).sample)
    ELSE ExceptHandlers(TryBody(resp).exc)

\* a variant that gives the client up after a NewsAPI error
ClientDroppedOnError(client, resp) ==
    IF resp.kind = "NewsAPIException" THEN FALSE ELSE client

\* the wrapper only reads the module-level client
ClientAfterFetch(client, resp) == client

\* module load: the client exists only if the key is set, the library was
\* imported and the constructor did not raise
InitClient(key, lib, ctor_ok) == key /\ lib /\ ctor_ok

-----------------------------------------------------------------------------
(* Aggregation *)

RECURSIVE CombineSentiments(_)
\* combined_sentiments: one value per source whose sentiment is not None
CombineSentiments(ss) ==
    IF ss = <<>> THEN <<>>
    ELSE IF Head(ss).sentiment # None
         THEN <<Head(ss).sentiment>> \o CombineSentiments(Tail(ss))
         ELSE CombineSentiments(Tail(ss))

\* a variant that takes every source's titles
CombineTitlesAll(ss) == Concat([i \in 1..Len(ss) |-> ss[i].titles])

RECURSIVE CombineTitles(_)
\* combined_news_titles: the titles of the sources whose sentiment is not None
CombineTitles(ss) ==
    IF ss = <<>> THEN <<>>
    ELSE IF Head(ss).sentiment # None
         THEN Head(ss).titles \o CombineTitles(Tail(ss))
         ELSE CombineTitles(Tail(ss))

\* a variant that keeps the last occurrence of a title instead of the first
UniqueTitlesKeepLast(titles) ==
    LET RECURSIVE K(_)
        K(s) == IF s = <<>> THEN <<>>
                ELSE IF Head(s) \in Range(Tail(s)) THEN K(Tail(s))
                ELSE <<Head(s)>> \o K(Tail(s))
    IN K(titles)

\* [title for title in combined_news_titles if not (title in seen or seen.add(title))]
UniqueTitles(titles) ==
    LET RECURSIVE U(_, _)
        U(s, seen) == IF s = <<>> THEN <<>>
                      ELSE IF Head(s) \in seen THEN U(Tail(s), seen)
                      ELSE <<Head(s)>> \o U(Tail(s), seen \cup {Head(s)})
    IN U(titles, {})

\* a variant that keeps the latest value instead of averaging
OverallLatest(sentiments) ==
    IF sentiments # <<>> THEN sentiments[Len(sentiments)] ELSE None

\* overall_news_sentiment = None; if combined_sentiments: np.mean(...)
Overall(sentiments) == IF sentiments # <<>> THEN Mean(sentiments) ELSE None

SampleSize == 5

\* a variant that shows every distinct title, without the [:5]
ShownSamplesAll(titles) ==
    LET S == Range(titles)
        n == Cardinality(S)
    IN {f \in [1..n -> S] : Range(f) = S}

\* list(set(titles))[:5]: the set's iteration order is not defined
ShownSamples(titles) ==
    LET S == Range(titles)
        n == Cardinality(S)
    IN {SubSeq(p, 1, Min(SampleSize, n)) : p \in {f \in [1..n -> S] : Range(f) = S}}

-----------------------------------------------------------------------------
(* The signal deriver, generate_signal of the analysis library *)

Signals == {"BUY", "SELL", "HOLD"}

\* a variant that looks the level up in a table without a default
GenerateSignalPartial(impact) ==
    IF impact.short_term \in ImpactLevels
    THEN [ raised |-> FALSE,
           signal |-> CASE impact.short_term = "positive" -> "BUY"
                        [] impact.short_term = "negative" -> "SELL"
                        [] OTHER -> "HOLD" ]
    ELSE [raised |-> TRUE, signal |-> NoSignal]

\* a pure mapping from the short_term level to a signal label; a level that
\* is not recognized, or is absent, maps to the neutral signal
GenerateSignal(impact) ==
    [ raised |-> FALSE,
      signal |-> CASE impact.short_term = "positive" -> "BUY"
                   [] impact.short_term = "negative" -> "SELL"
                   [] OTHER -> "HOLD" ]

-----------------------------------------------------------------------------
(* Gates *)

\* a gate that forgets the check for missing or empty history
DataGateNoEmptyCheck(d) == IF d.error THEN "error" ELSE "proceed"

\* if error: ... elif historical_data is None or historical_data.empty: ... else:
DataGate(d) ==
    IF d.error THEN "error"
    ELSE IF d.history \in {"None", "empty"} THEN "insufficient"
    ELSE "proceed"

NewsapiAllowed(key) == key

\* a gate that forgets the key
GnewsAllowedAnyKey(ticker, key) == EndsWithNS(ticker)

\* if ticker.endswith(".NS"): if APP_GNEWS_API_KEY:
GnewsAllowed(ticker, key) == EndsWithNS(ticker) /\ key

-----------------------------------------------------------------------------
(* State *)

\* one logged call of a collaborator
Call(fn, ticker, sentiment, titles, text) ==
    [fn |-> fn, ticker |-> ticker, sentiment |-> sentiment, titles |-> titles,
     text |-> text]

CallsOf(fn) == SelectSeq(calls, LAMBDA c : c.fn = fn)

NoEnv == Env([error |-> FALSE, history |-> "None"], DefaultResponse, NoData, NoData,
             DefaultImpact)

NoRef == [set |-> FALSE]

\* a request started after the kept one (counted up to two)
Later(r) == IF r.set THEN [r EXCEPT !.started = Min(2, @ + 1)] ELSE r

\* the handler's locals before they are bound
FreshLocals ==
    /\ newsapi_sample' = NoData
    /\ second_sample' = NoData
    /\ combined_sentiments' = <<>>
    /\ combined_news_titles' = <<>>
    /\ overall_news_sentiment' = None
    /\ event_signal' = NoSignal
    /\ calls' = <<>>

Init ==
    /\ app \in {"desktop", "web"}
    /\ APP_NEWS_API_KEY \in (IF app = "web" THEN BOOLEAN ELSE {FALSE})
    /\ APP_GNEWS_API_KEY \in (IF app = "web" THEN BOOLEAN ELSE {FALSE})
    /\ \E key, lib, ctor_ok \in BOOLEAN :
          newsapi_client_gui = (app = "desktop" /\ InitClient(key, lib, ctor_ok))
    /\ pc = "idle"
    /\ ticker_input_raw = <<>>
    /\ ticker_symbol = <<>>
    /\ env = NoEnv
    /\ newsapi_sample = NoData
    /\ second_sample = NoData
    /\ combined_sentiments = <<>>
    /\ combined_news_titles = <<>>
    /\ overall_news_sentiment = None
    /\ shown_titles = <<>>
    /\ output_text = <<>>
    /\ event_signal = NoSignal
    /\ calls = <<>>
    /\ ref = NoRef

SampleText == "<sample snippet>"

-----------------------------------------------------------------------------
(* Desktop: StockAnalyzerApp.analyze_stock_action *)

\* the user types `raw` and presses Analyze; an empty ticker is refused with
\* a message box and the text area is left alone
D_Click(E) ==
    /\ app = "desktop" /\ pc = "idle"
    /\ \E raw \in RawInputs :
        /\ ticker_input_raw' = raw
        /\ ticker_symbol' = Upper(Strip(raw))
        /\ IF Upper(Strip(raw)) = <<>>
           THEN /\ pc' = "idle"
                /\ UNCHANGED <<env, display>>
           ELSE /\ pc' = "get_stock_data"
                /\ env' \in E
                /\ output_text' = <<"Analyzing">>
                /\ shown_titles' = <<>>
        /\ ref' = IF Upper(Strip(raw)) = <<>> THEN ref ELSE Later(ref)
    /\ FreshLocals
    /\ UNCHANGED <<config, newsapi_client_gui>>

D_GetStockData ==
    /\ app = "desktop" /\ pc = "get_stock_data"
    /\ calls' = Append(calls, Call("get_stock_data", ticker_symbol, None, <<>>, ""))
    /\ CASE DataGate(env.data) = "error" ->
              pc' = "done" /\ output_text' = Append(output_text, "Error")
         [] DataGate(env.data) = "insufficient" ->
              pc' = "done" /\ output_text' = Append(output_text, "Could not retrieve")
         [] DataGate(env.data) = "proceed" ->
              pc' = "indicators" /\ output_text' = Append(output_text, "Data")
    /\ UNCHANGED <<config, newsapi_client_gui, request, samples, aggr, shown_titles, event_signal, ref>>

\* a variant that runs the basic analysis before any news is fetched
D_IndicatorsThenBasic ==
    /\ app = "desktop" /\ pc = "indicators"
    /\ calls' = calls \o
          << Call("calculate_technical_indicators", <<>>, None, <<>>, ""),
             Call("analyze_stock", <<>>, overall_news_sentiment, <<>>, "") >>
    /\ output_text' = Append(output_text, "Technical Indicators")
    /\ pc' = "fetch_newsapi"
    /\ UNCHANGED <<config, newsapi_client_gui, request, samples, aggr, shown_titles, event_signal, ref>>

D_Indicators ==
    /\ app = "desktop" /\ pc = "indicators"
    /\ calls' = Append(calls, Call("calculate_technical_indicators", <<>>, None, <<>>, ""))
    /\ output_text' = Append(output_text, "Technical Indicators")
    /\ pc' = "fetch_newsapi"
    /\ UNCHANGED <<config, newsapi_client_gui, request, samples, aggr, shown_titles, event_signal, ref>>

D_FetchNewsapi ==
    /\ app = "desktop" /\ pc = "fetch_newsapi"
    /\ LET r == FetchNewsFromNewsapiForGui(newsapi_client_gui, env.resp) IN
        /\ calls' = IF newsapi_client_gui
                    THEN Append(calls, Call("get_everything", ticker_symbol, None, <<>>, ""))
                    ELSE calls
        /\ IF r.raised
           THEN pc' = "raised" /\ UNCHANGED newsapi_sample
           ELSE pc' = "fetch_second" /\ newsapi_sample' = r.sample
    /\ newsapi_client_gui' = ClientAfterFetch(newsapi_client_gui, env.resp)
    /\ UNCHANGED <<config, request, second_sample, aggr, display, event_signal, ref>>

D_FetchRss ==
    /\ app = "desktop" /\ pc = "fetch_second"
    /\ calls' = Append(calls, Call("fetch_news_sentiment_from_rss", ticker_symbol, None, <<>>, ""))
    /\ second_sample' = env.second
    /\ pc' = "combine"
    /\ UNCHANGED <<config, newsapi_client_gui, request, newsapi_sample, aggr, display, event_signal, ref>>

D_Combine ==
    /\ app = "desktop" /\ pc = "combine"
    /\ combined_sentiments' = CombineSentiments(<<newsapi_sample, second_sample>>)
    /\ combined_news_titles' = CombineTitles(<<newsapi_sample, second_sample>>)
    /\ pc' = "mean"
    /\ UNCHANGED <<config, newsapi_client_gui, request, samples, overall_news_sentiment,
                   display, calls, event_signal, ref>>

D_Mean ==
    /\ app = "desktop" /\ pc = "mean"
    /\ overall_news_sentiment' = Overall(combined_sentiments)
    /\ pc' = "show_news"
    /\ UNCHANGED <<config, newsapi_client_gui, request, samples, combined_sentiments,
                   combined_news_titles, display, calls, event_signal, ref>>

D_ShowNews ==
    /\ app = "desktop" /\ pc = "show_news"
    /\ IF overall_news_sentiment # None
       THEN /\ shown_titles' \in ShownSamples(combined_news_titles)
            /\ output_text' = Append(output_text, "Overall News Sentiment")
       ELSE /\ shown_titles' = <<>>
            /\ output_text' = Append(output_text, "Could not fetch news sentiment")
    /\ pc' = "basic"
    /\ UNCHANGED <<config, newsapi_client_gui, request, samples, aggr, calls, event_signal, ref>>

\* a variant that skips the basic analysis when no news sentiment is available
D_BasicOnlyWithNews ==
    /\ app = "desktop" /\ pc = "basic"
    /\ IF overall_news_sentiment # None
       THEN calls' = Append(calls, Call("analyze_stock", <<>>, overall_news_sentiment, <<>>, ""))
       ELSE UNCHANGED calls
    /\ output_text' = Append(output_text, "Basic Analysis")
    /\ pc' = "enhanced"
    /\ UNCHANGED <<config, newsapi_client_gui, request, samples, aggr, shown_titles, event_signal, ref>>

D_Basic ==
    /\ app = "desktop" /\ pc = "basic"
    /\ calls' = Append(calls, Call("analyze_stock", <<>>, overall_news_sentiment, <<>>, ""))
    /\ output_text' = Append(output_text, "Basic Analysis")
    /\ pc' = "enhanced"
    /\ UNCHANGED <<config, newsapi_client_gui, request, samples, aggr, shown_titles, event_signal, ref>>

D_Enhanced ==
    /\ app = "desktop" /\ pc = "enhanced"
    /\ calls' = Append(calls, Call("enhanced_analysis", ticker_symbol, overall_news_sentiment,
                                   combined_news_titles, ""))
    /\ output_text' = Append(output_text, "Enhanced Analysis")
    /\ pc' = "events"
    /\ UNCHANGED <<config, newsapi_client_gui, request, samples, aggr, shown_titles, event_signal, ref>>

D_Events ==
    /\ app = "desktop" /\ pc = "events"
    /\ calls' = calls \o
          << Call("extract_financial_events", <<>>, None, <<>>, SampleText),
             Call("analyze_sentiment", <<>>, None, <<>>, SampleText),
             Call("assess_impact", <<>>, None, <<>>, ""),
             Call("generate_signal", <<>>, None, <<>>, "") >>
    /\ LET r == GenerateSignal(env.impact) IN
         IF r.raised
         THEN pc' = "raised" /\ UNCHANGED <<event_signal, output_text>>
         ELSE /\ event_signal' = r.signal
              /\ output_text' = Append(output_text, "Financial Event Analysis")
              /\ pc' = "done"
    /\ UNCHANGED <<config, newsapi_client_gui, request, samples, aggr, shown_titles, ref>>

\* the handler returns to the event loop; the text area keeps its content
D_Return ==
    /\ app = "desktop" /\ pc = "done"
    /\ pc' = "idle"
    /\ env' = NoEnv
    /\ FreshLocals
    /\ UNCHANGED <<config, newsapi_client_gui, ticker_input_raw, ticker_symbol, display, ref>>

-----------------------------------------------------------------------------
(* Web: one run of the stock_app.py script after the Analyze button *)

\* a rerun renders the page anew; an empty ticker only shows a warning
W_Click(E) ==
    /\ app = "web" /\ pc = "idle"
    /\ \E raw \in RawInputs :
        /\ ticker_input_raw' = raw
        /\ IF Strip(raw) = <<>>
           THEN /\ pc' = "idle"
                /\ ticker_symbol' = <<>>
                /\ output_text' = <<"Warning">>
                /\ UNCHANGED env
           ELSE /\ pc' = "get_stock_data"
                /\ ticker_symbol' = Upper(Strip(raw))
                /\ env' \in E
                /\ output_text' = <<"Analyzing">>
        /\ ref' = IF Strip(raw) = <<>> THEN ref ELSE Later(ref)
    /\ shown_titles' = <<>>
    /\ FreshLocals
    /\ UNCHANGED <<config, newsapi_client_gui>>

W_GetStockData ==
    /\ app = "web" /\ pc = "get_stock_data"
    /\ calls' = Append(calls, Call("get_stock_data", ticker_symbol, None, <<>>, ""))
    /\ CASE DataGate(env.data) = "error" ->
              pc' = "done" /\ output_text' = Append(output_text, "Error")
         [] DataGate(env.data) = "insufficient" ->
              pc' = "done" /\ output_text' = Append(output_text, "Could not retrieve")
         [] DataGate(env.data) = "proceed" ->
              pc' = "indicators" /\ output_text' = Append(output_text, "Data")
    /\ UNCHANGED <<config, newsapi_client_gui, request, samples, aggr, shown_titles, event_signal, ref>>

W_Indicators ==
    /\ app = "web" /\ pc = "indicators"
    /\ calls' = Append(calls, Call("calculate_technical_indicators", <<>>, None, <<>>, ""))
    /\ output_text' = Append(output_text, "Technical Indicators")
    /\ pc' = "fetch_newsapi"
    /\ UNCHANGED <<config, newsapi_client_gui, request, samples, aggr, shown_titles, event_signal, ref>>

W_FetchNewsapi ==
    /\ app = "web" /\ pc = "fetch_newsapi"
    /\ IF NewsapiAllowed(APP_NEWS_API_KEY)
       THEN /\ calls' = Append(calls, Call("fetch_news_sentiment_from_newsapi",
                                           ticker_symbol, None, <<>>, ""))
            /\ newsapi_sample' = env.newsapi
       ELSE /\ newsapi_sample' = NoData
            /\ UNCHANGED calls
    /\ pc' = "fetch_second"
    /\ UNCHANGED <<config, newsapi_client_gui, request, second_sample, aggr, display, event_signal, ref>>

W_FetchGnews ==
    /\ app = "web" /\ pc = "fetch_second"
    /\ IF GnewsAllowed(ticker_symbol, APP_GNEWS_API_KEY)
       THEN /\ calls' = Append(calls, Call("fetch_news_sentiment_from_gnews",
                                           ticker_symbol, None, <<>>, ""))
            /\ second_sample' = env.second
       ELSE /\ second_sample' = NoData
            /\ UNCHANGED calls
    /\ pc' = "combine"
    /\ UNCHANGED <<config, newsapi_client_gui, request, newsapi_sample, aggr, display, event_signal, ref>>

W_Combine ==
    /\ app = "web" /\ pc = "combine"
    /\ combined_sentiments' = CombineSentiments(<<newsapi_sample, second_sample>>)
    /\ combined_news_titles' = CombineTitles(<<newsapi_sample, second_sample>>)
    /\ pc' = "dedup"
    /\ UNCHANGED <<config, newsapi_client_gui, request, samples, overall_news_sentiment,
                   display, calls, event_signal, ref>>

W_Dedup ==
    /\ app = "web" /\ pc = "dedup"
    /\ combined_news_titles' =
          IF combined_news_titles # <<>> THEN UniqueTitles(combined_news_titles)
          ELSE combined_news_titles
    /\ pc' = "mean"
    /\ UNCHANGED <<config, newsapi_client_gui, request, samples, combined_sentiments,
                   overall_news_sentiment, display, calls, event_signal, ref>>

W_Mean ==
    /\ app = "web" /\ pc = "mean"
    /\ overall_news_sentiment' = Overall(combined_sentiments)
    /\ pc' = "show_news"
    /\ UNCHANGED <<config, newsapi_client_gui, request, samples, combined_sentiments,
                   combined_news_titles, display, calls, event_signal, ref>>

W_ShowNews ==
    /\ app = "web" /\ pc = "show_news"
    /\ IF overall_news_sentiment # None
       THEN /\ shown_titles' \in ShownSamples(combined_news_titles)
            /\ output_text' = Append(output_text, "Overall News Sentiment")
       ELSE /\ shown_titles' = <<>>
            /\ output_text' = Append(output_text, "No news sentiment")
    /\ pc' = "basic"
    /\ UNCHANGED <<config, newsapi_client_gui, request, samples, aggr, calls, event_signal, ref>>

W_Basic ==
    /\ app = "web" /\ pc = "basic"
    /\ calls' = Append(calls, Call("analyze_stock", <<>>, overall_news_sentiment, <<>>, ""))
    /\ output_text' = Append(output_text, "Basic Analysis")
    /\ pc' = "enhanced"
    /\ UNCHANGED <<config, newsapi_client_gui, request, samples, aggr, shown_titles, event_signal, ref>>

W_Enhanced ==
    /\ app = "web" /\ pc = "enhanced"
    /\ calls' = Append(calls, Call("enhanced_analysis", ticker_symbol, overall_news_sentiment,
                                   combined_news_titles, ""))
    /\ output_text' = Append(output_text, "Enhanced Analysis")
    /\ pc' = "events"
    /\ UNCHANGED <<config, newsapi_client_gui, request, samples, aggr, shown_titles, event_signal, ref>>

\* a title that is the empty string is falsy
Falsy(title) == title = ""

\* title.strip() is empty
Blank(title) == title \in {"", " "}

\* combined_news_titles[0] if combined_news_titles else None, replaced by the
\* sample snippet when it is falsy
NewsItemForEventAnalysis(titles) ==
    IF titles # <<>> /\ ~Falsy(titles[1])
    THEN [text |-> titles[1], is_sample |-> FALSE]
    ELSE [text |-> SampleText, is_sample |-> TRUE]

W_Events ==
    /\ app = "web" /\ pc = "events"
    /\ LET item == NewsItemForEventAnalysis(combined_news_titles) IN
        IF ~Blank(item.text)
        THEN /\ calls' = calls \o
                  << Call("extract_financial_events", <<>>, None, <<>>, item.text),
                     Call("analyze_sentiment", <<>>, None, <<>>, item.text),
                     Call("assess_impact", <<>>, None, <<>>, ""),
                     Call("generate_signal", <<>>, None, <<>>, "") >>
             /\ LET r == GenerateSignal(env.impact) IN
                  IF r.raised
                  THEN pc' = "raised" /\ UNCHANGED <<event_signal, output_text>>
                  ELSE /\ event_signal' = r.signal
                       /\ output_text' = output_text \o
                            (IF item.is_sample THEN <<"No live news fetched">> ELSE <<>>)
                            \o <<"Financial Event Impact Analysis">>
                       /\ pc' = "done"
        ELSE pc' = "done" /\ UNCHANGED <<calls, output_text, event_signal>>
    /\ UNCHANGED <<config, newsapi_client_gui, request, samples, aggr, shown_titles, ref>>

\* the script run ends; the rendered page stays until the next rerun
W_Return ==
    /\ app = "web" /\ pc = "done"
    /\ pc' = "idle"
    /\ env' = NoEnv
    /\ FreshLocals
    /\ UNCHANGED <<config, newsapi_client_gui, ticker_input_raw, ticker_symbol, display, ref>>

-----------------------------------------------------------------------------
(* Specifications *)

Envs == EnvsOf(app, MarketData, ClientResponses, Samples, {DefaultImpact})

Next ==
    \/ D_Click(Envs) \/ D_GetStockData \/ D_Indicators \/ D_FetchNewsapi \/ D_FetchRss
    \/ D_Combine \/ D_Mean \/ D_ShowNews \/ D_Basic \/ D_Enhanced \/ D_Events \/ D_Return
    \/ W_Click(Envs) \/ W_GetStockData \/ W_Indicators \/ W_FetchNewsapi \/ W_FetchGnews
    \/ W_Combine \/ W_Dedup \/ W_Mean \/ W_ShowNews \/ W_Basic \/ W_Enhanced \/ W_Events
    \/ W_Return

Spec == Init /\ [][Next]_vars

-----------------------------------------------------------------------------
(* A session of repeated requests over a small set of environments, with   *)
(* one finished request kept in `ref` for comparison with later ones.      *)

SessionData == {d \in MarketData : d.history \in {"None", "bars"} /\ (d.error <=> d.history = "None")}

SessionSamples ==
    { NoData, Sample(Rat(1, 1), <<"a">>), Sample(Rat(-1, 1), <<"b", "a">>) }

SessionResponses ==
    { Response("NewsAPIException", <<>>), Response("ok", <<>>) }
    \cup {Response("ok", <<x>>) : x \in {y \in ArticlePool : y.title \in TitlePool /\ ~y.scorer_raises}}

SessionEnvs == EnvsOf(app, SessionData, SessionResponses, SessionSamples, {DefaultImpact})

\* what a request produced: the aggregation output and the calls it made
Outcome ==
    [overall |-> overall_news_sentiment, titles |-> combined_news_titles, calls |-> calls]

Snapshot ==
    /\ pc = "done" /\ ~ref.set
    /\ ref' = [set |-> TRUE, ticker |-> ticker_symbol, env |-> env, out |-> Outcome,
               signal |-> event_signal, started |-> 0]
    /\ UNCHANGED <<config, newsapi_client_gui, pc, request, samples, aggr, display, calls,
                   event_signal>>

NextSession ==
    \/ D_Click(SessionEnvs) \/ D_GetStockData \/ D_Indicators \/ D_FetchNewsapi \/ D_FetchRss
    \/ D_Combine \/ D_Mean \/ D_ShowNews \/ D_Basic \/ D_Enhanced \/ D_Events \/ D_Return
    \/ W_Click(SessionEnvs) \/ W_GetStockData \/ W_Indicators \/ W_FetchNewsapi \/ W_FetchGnews
    \/ W_Combine \/ W_Dedup \/ W_Mean \/ W_ShowNews \/ W_Basic \/ W_Enhanced \/ W_Events
    \/ W_Return
    \/ Snapshot

SpecSession == Init /\ [][NextSession]_vars

-----------------------------------------------------------------------------
(* Requests whose sources return more distinct titles than are displayed *)

SixTitles == <<"a", "b", "c", "d", "e", "f">>

DisplayData == {d \in MarketData : ~d.error /\ d.history = "bars"}

DisplaySamples ==
    { NoData, Sample(Rat(1, 1), SixTitles), Sample(Rat(-1, 1), <<"a", "a">>) }

DisplayEnvs == EnvsOf(app, DisplayData, {Response("ok", <<>>)}, DisplaySamples, {DefaultImpact})

NextDisplay ==
    \/ D_Click(DisplayEnvs) \/ D_GetStockData \/ D_Indicators \/ D_FetchNewsapi \/ D_FetchRss
    \/ D_Combine \/ D_Mean \/ D_ShowNews \/ D_Basic \/ D_Enhanced \/ D_Events \/ D_Return
    \/ W_Click(DisplayEnvs) \/ W_GetStockData \/ W_Indicators \/ W_FetchNewsapi \/ W_FetchGnews
    \/ W_Combine \/ W_Dedup \/ W_Mean \/ W_ShowNews \/ W_Basic \/ W_Enhanced \/ W_Events
    \/ W_Return

SpecDisplay == Init /\ [][NextDisplay]_vars

-----------------------------------------------------------------------------
(* Requests whose sources return titles that are empty or only whitespace *)

EventSamples ==
    { NoData, Sample(Rat(1, 1), <<"a">>), Sample(Rat(1, 1), <<"", "a">>),
      Sample(Rat(-1, 1), <<" ", "a">>) }

EventEnvs == EnvsOf(app, SessionData, {Response("ok", <<>>)}, EventSamples, {DefaultImpact})

NextEvents ==
    \/ D_Click(EventEnvs) \/ D_GetStockData \/ D_Indicators \/ D_FetchNewsapi \/ D_FetchRss
    \/ D_Combine \/ D_Mean \/ D_ShowNews \/ D_Basic \/ D_Enhanced \/ D_Events \/ D_Return
    \/ W_Click(EventEnvs) \/ W_GetStockData \/ W_Indicators \/ W_FetchNewsapi \/ W_FetchGnews
    \/ W_Combine \/ W_Dedup \/ W_Mean \/ W_ShowNews \/ W_Basic \/ W_Enhanced \/ W_Events
    \/ W_Return

SpecEvents == Init /\ [][NextEvents]_vars

-----------------------------------------------------------------------------
(* A session of requests whose events are assessed with every impact value *)

SignalEnvs == EnvsOf(app, DisplayData, {Response("ok", <<>>)}, {NoData}, Impacts)

NextSignal ==
    \/ D_Click(SignalEnvs) \/ D_GetStockData \/ D_Indicators \/ D_FetchNewsapi \/ D_FetchRss
    \/ D_Combine \/ D_Mean \/ D_ShowNews \/ D_Basic \/ D_Enhanced \/ D_Events \/ D_Return
    \/ W_Click(SignalEnvs) \/ W_GetStockData \/ W_Indicators \/ W_FetchNewsapi \/ W_FetchGnews
    \/ W_Combine \/ W_Dedup \/ W_Mean \/ W_ShowNews \/ W_Basic \/ W_Enhanced \/ W_Events
    \/ W_Return
    \/ Snapshot

SpecSignal == Init /\ [][NextSignal]_vars

-----------------------------------------------------------------------------
(* Properties *)

AfterNewsapiFetch ==
    {"fetch_second", "combine", "dedup", "mean", "show_news", "basic", "enhanced",
     "events", "done"}
AfterFetches == AfterNewsapiFetch \ {"fetch_second"}
AfterCombine == AfterFetches \ {"combine"}
AfterMean == AfterCombine \ {"dedup", "mean"}

Fetched == <<newsapi_sample, second_sample>>

\* no error and non-empty history
MarketDataSucceeded == ~env.data.error /\ env.data.history = "bars"

\* C1: the overall news sentiment is None exactly when no source returned a
\* non-null sentiment, and otherwise is the unweighted mean of the non-null
\* source sentiments, one value per source whatever the number of its titles.
C1_OverallIsMeanOfNonNull ==
    pc \in AfterMean =>
        LET a == newsapi_sample.sentiment
            b == second_sample.sentiment
        IN /\ (overall_news_sentiment = None) <=> (a = None /\ b = None)
           /\ (a # None /\ b = None) => overall_news_sentiment = a
           /\ (a = None /\ b # None) => overall_news_sentiment = b
           /\ (a # None /\ b # None) =>
                 overall_news_sentiment = Rat(a[1] * b[2] + b[1] * a[2], 2 * a[2] * b[2])

C1_Witness ==
    /\ pc = "done"
    /\ newsapi_sample.sentiment = Rat(1, 1) /\ second_sample.sentiment = Rat(1, 1)
    /\ Len(newsapi_sample.titles) = 2 /\ Len(second_sample.titles) = 1
    /\ overall_news_sentiment = Rat(1, 1)

\* C2: the title collection handed to enhanced_analysis holds each distinct
\* title exactly once, in both front ends.
C2_AggregatedTitlesDistinct ==
    \A i \in 1..Len(calls) :
        calls[i].fn = "enhanced_analysis" => NoDuplicates(calls[i].titles)

\* C3: the aggregated titles are exactly the titles of the sources whose
\* sentiment is non-null; a source that returned None contributes no title.
C3_TitlesOnlyFromScoredSources ==
    pc \in AfterCombine =>
        Range(combined_news_titles) =
            UNION {Range(Fetched[i].titles) : i \in {j \in 1..2 : Fetched[j].sentiment # None}}

C3_Witness ==
    /\ pc = "done"
    /\ newsapi_sample.sentiment # None /\ newsapi_sample.titles = <<"a">>
    /\ second_sample.sentiment = None /\ second_sample.titles = <<"b">>
    /\ combined_news_titles = <<"a">>

\* the failures C4 lists: the client raises, the response is empty or has no
\* articles, or the scorer raises on an article it is given
FailedResponse(resp) ==
    \/ resp.kind \in {"NewsAPIException", "Exception", "falsy", "no_articles_key"}
    \/ resp.articles = <<>>
    \/ \E i \in 1..Len(resp.articles) :
          /\ resp.articles[i].scorer_raises
          /\ (resp.articles[i].title \in TitlePool \/ resp.articles[i].desc)

\* C4: _fetch_news_from_newsapi_for_gui never lets a failure escape: no
\* exception leaves it, and on every listed failure it returns (None, []).
C4_NewsapiFetchNeverRaises ==
    /\ pc # "raised"
    /\ (app = "desktop" /\ pc \in AfterNewsapiFetch /\ FailedResponse(env.resp))
          => newsapi_sample = NoData

C4_Witness ==
    /\ app = "desktop" /\ newsapi_client_gui /\ pc = "fetch_second"
    /\ env.resp.kind = "ok"
    /\ \E i \in 1..Len(env.resp.articles) : env.resp.articles[i].scorer_raises
    /\ newsapi_sample = NoData

\* C5: every return of _fetch_news_from_newsapi_for_gui pairs a None score
\* with an empty title list.
C5_NoneScoreHasNoTitles ==
    (app = "desktop" /\ pc \in AfterNewsapiFetch) =>
        (newsapi_sample.sentiment = None => newsapi_sample.titles = <<>>)

C5_Witness ==
    /\ app = "desktop" /\ newsapi_client_gui /\ pc = "fetch_second"
    /\ env.resp.kind = "ok" /\ env.resp.articles # <<>>
    /\ \A i \in 1..Len(env.resp.articles) :
          env.resp.articles[i].title = Missing /\ ~env.resp.articles[i].desc
    /\ newsapi_sample = NoData

C7_ProceedsWithoutMarketData ==
    (pc = "done" /\ ~MarketDataSucceeded) =>
        /\ Len(CallsOf("analyze_stock")) = 1
        /\ Len(CallsOf("enhanced_analysis")) = 1

\* C7 amended: when get_stock_data reports an error or returns missing or
\* empty history, the run shows the message and ends without raising; it calls
\* no news fetcher and no recommendation function and aggregates nothing.
C7_StopsWithoutMarketData ==
    /\ pc # "raised"
    /\ (pc = "done" /\ ~MarketDataSucceeded) =>
          /\ calls = <<Call("get_stock_data", ticker_symbol, None, <<>>, "")>>
          /\ output_text \in {<<"Analyzing", "Error">>, <<"Analyzing", "Could not retrieve">>}
          /\ combined_sentiments = <<>> /\ combined_news_titles = <<>>
          /\ overall_news_sentiment = None

C7_Witness ==
    /\ pc = "done" /\ ~env.data.error /\ env.data.history = "empty"
    /\ env.second.sentiment # None
    /\ Len(calls) = 1
    /\ output_text = <<"Analyzing", "Could not retrieve">>

\* C8: a source that is not configured is not called and its sample is
\* (None, []): web NewsAPI needs NEWS_API_KEY, web GNews needs a ".NS" ticker
\* and GNEWS_API_KEY, the desktop wrapper needs the initialized client.
C8_UnconfiguredSourceNotCalled ==
    /\ (app = "web" /\ pc \in AfterNewsapiFetch) =>
          /\ CallsOf("fetch_news_sentiment_from_newsapi") # <<>> => APP_NEWS_API_KEY
          /\ ~APP_NEWS_API_KEY => newsapi_sample = NoData
    /\ (app = "web" /\ pc \in AfterFetches) =>
          /\ CallsOf("fetch_news_sentiment_from_gnews") # <<>>
                => (EndsWithNS(ticker_symbol) /\ APP_GNEWS_API_KEY)
          /\ ~(EndsWithNS(ticker_symbol) /\ APP_GNEWS_API_KEY) => second_sample = NoData
    /\ (app = "desktop" /\ pc \in AfterNewsapiFetch /\ ~newsapi_client_gui) =>
          /\ CallsOf("get_everything") = <<>>
          /\ newsapi_sample = NoData

C8_Witness ==
    /\ app = "web" /\ pc = "done" /\ MarketDataSucceeded
    /\ EndsWithNS(ticker_symbol) /\ ~APP_GNEWS_API_KEY /\ APP_NEWS_API_KEY
    /\ env.second.sentiment # None
    /\ second_sample = NoData
    /\ CallsOf("fetch_news_sentiment_from_gnews") = <<>>
    /\ CallsOf("fetch_news_sentiment_from_newsapi") # <<>>

\* C9: aggregating the two samples in the other order gives the overall
\* sentiment the run computed and the same set of aggregated titles.
C9_AggregationOrderInsensitive ==
    pc \in AfterMean =>
        /\ overall_news_sentiment = Overall(CombineSentiments(Reverse(Fetched)))
        /\ Range(combined_news_titles) = Range(CombineTitles(Reverse(Fetched)))

C9_Witness ==
    /\ pc = "done"
    /\ newsapi_sample.sentiment = Rat(1, 1) /\ second_sample.sentiment = Rat(-1, 1)
    /\ newsapi_sample.titles = <<"a">> /\ second_sample.titles = <<"b">>
    /\ overall_news_sentiment = Rat(0, 1)

\* C10: a finished request with the same ticker and the same collaborator
\* results as an earlier finished request has the same aggregation output and
\* made the same calls with the same arguments, whatever ran in between.
C10_SameInputsSameOutcome ==
    (pc = "done" /\ ref.set /\ ref.ticker = ticker_symbol /\ ref.env = env)
        => ref.out = Outcome

C10_Witness ==
    /\ pc = "done" /\ ref.set /\ ref.started = 2
    /\ ref.ticker = ticker_symbol /\ ref.env = env
    /\ MarketDataSucceeded /\ overall_news_sentiment # None

\* position of a collaborator in the pipeline
Rank(fn) ==
    CASE fn = "get_stock_data" -> 1
      [] fn = "calculate_technical_indicators" -> 2
      [] fn \in {"get_everything", "fetch_news_sentiment_from_newsapi"} -> 3
      [] fn \in {"fetch_news_sentiment_from_rss", "fetch_news_sentiment_from_gnews"} -> 4
      [] fn = "analyze_stock" -> 5
      [] fn = "enhanced_analysis" -> 6
      [] fn = "extract_financial_events" -> 7
      [] fn = "analyze_sentiment" -> 8
      [] fn = "assess_impact" -> 9
      [] fn = "generate_signal" -> 10

Called(fn) == CallsOf(fn) # <<>>

\* C11: within a request the collaborators are called one after the other in
\* pipeline order: market data before any news fetch, the first news fetch
\* before the second, every fetch before the overall sentiment is computed,
\* and analyze_stock and enhanced_analysis after the aggregation and before
\* the event extraction and generate_signal.
C11_PipelineOrder ==
    /\ \A i, j \in 1..Len(calls) : i < j => Rank(calls[i].fn) < Rank(calls[j].fn)
    /\ (\E i \in 1..Len(calls) : Rank(calls[i].fn) \in {3, 4}) => Called("get_stock_data")
    /\ pc \notin AfterFetches =>
          /\ combined_sentiments = <<>> /\ combined_news_titles = <<>>
          /\ overall_news_sentiment = None
    /\ pc \in {"fetch_second", "combine", "dedup", "mean"} =>
          \A i \in 1..Len(calls) : Rank(calls[i].fn) <= 4
    /\ (Called("analyze_stock") \/ Called("enhanced_analysis")) => pc \in AfterMean
    /\ Called("generate_signal") =>
          (pc = "done" /\ Called("analyze_stock") /\ Called("enhanced_analysis"))

C11_Witness ==
    /\ pc = "done" /\ app = "web"
    /\ [i \in 1..Len(calls) |-> Rank(calls[i].fn)] = <<1, 2, 3, 4, 5, 6, 7, 8, 9, 10>>
    /\ overall_news_sentiment # None

\* first position of a title in a list
FirstIndex(s, x) == CHOOSE i \in 1..Len(s) : s[i] = x /\ \A j \in 1..(i - 1) : s[j] # x

\* the NewsAPI titles followed by the GNews titles, of the contributing sources
Concatenation ==
    (IF newsapi_sample.sentiment # None THEN newsapi_sample.titles ELSE <<>>)
    \o (IF second_sample.sentiment # None THEN second_sample.titles ELSE <<>>)

\* C13: in the web front end the de-duplicated title list keeps first-seen
\* order: of two distinct titles, the one first seen earlier in the
\* concatenation comes earlier in the list, and the list starts with the
\* first title of the concatenation.
C13_DedupKeepsFirstSeenOrder ==
    (app = "web" /\ pc \in AfterCombine \ {"dedup"}) =>
        /\ Range(combined_news_titles) = Range(Concatenation)
        /\ \A x, y \in Range(Concatenation) :
              FirstIndex(Concatenation, x) < FirstIndex(Concatenation, y)
                 => FirstIndex(combined_news_titles, x) < FirstIndex(combined_news_titles, y)
        /\ Concatenation # <<>> => combined_news_titles[1] = Concatenation[1]

C13_Witness ==
    /\ app = "web" /\ pc = "done"
    /\ newsapi_sample = Sample(Rat(1, 1), <<"a", "b">>)
    /\ second_sample = Sample(Rat(1, 1), <<"b", "a">>)
    /\ combined_news_titles = <<"a", "b">>

RatLeq(x, y) == x[1] * y[2] <= y[1] * x[2]

\* the non-null source sentiments
Contributing == {Fetched[i].sentiment : i \in {j \in 1..2 : Fetched[j].sentiment # None}}

\* C17: a non-null overall sentiment lies between the smallest and the
\* largest contributing source sentiment, hence within [-1, 1] when they are.
C17_OverallWithinSourceRange ==
    (pc \in AfterMean /\ overall_news_sentiment # None) =>
        /\ \E lo \in Contributing :
              /\ \A s \in Contributing : RatLeq(lo, s)
              /\ RatLeq(lo, overall_news_sentiment)
        /\ \E hi \in Contributing :
              /\ \A s \in Contributing : RatLeq(s, hi)
              /\ RatLeq(overall_news_sentiment, hi)
        /\ ((\A s \in Contributing : RatLeq(Rat(-1, 1), s) /\ RatLeq(s, Rat(1, 1)))
              => (RatLeq(Rat(-1, 1), overall_news_sentiment)
                  /\ RatLeq(overall_news_sentiment, Rat(1, 1))))

C17_Witness ==
    /\ pc = "basic"
    /\ newsapi_sample.sentiment = Rat(-1, 1) /\ second_sample.sentiment = Rat(1, 1)
    /\ overall_news_sentiment = Rat(0, 1)

\* the collaborators that are handed the ticker
TickerTaking ==
    { "get_stock_data", "get_everything", "fetch_news_sentiment_from_rss",
      "fetch_news_sentiment_from_newsapi", "fetch_news_sentiment_from_gnews",
      "enhanced_analysis" }

AllBlank(raw) == \A i \in 1..Len(raw) : raw[i] \in Whitespace

\* t is raw without its leading and trailing whitespace, in upper case
IsNormalised(raw, t) ==
    \E i, j \in 0..Len(raw) :
        /\ i + j <= Len(raw)
        /\ Len(t) = Len(raw) - i - j
        /\ \A k \in 1..i : raw[k] \in Whitespace
        /\ \A k \in (Len(raw) - j + 1)..Len(raw) : raw[k] \in Whitespace
        /\ t # <<>> => (raw[i + 1] \notin Whitespace /\ raw[Len(raw) - j] \notin Whitespace)
        /\ \A k \in 1..Len(t) : t[k] = UpperChar(raw[i + k])

C15_Step ==
    /\ pc = "idle" =>
          IF AllBlank(ticker_input_raw')
          THEN /\ pc' = "idle" /\ calls' = <<>>
               /\ app = "desktop" => display' = display
          ELSE pc' = "get_stock_data"
    /\ \A i \in 1..Len(calls') :
          IF calls'[i].fn \in TickerTaking
          THEN /\ calls'[i].ticker # <<>>
               /\ IsNormalised(ticker_input_raw', calls'[i].ticker)
          ELSE calls'[i].ticker = <<>>

\* C15: pressing Analyze with an empty or whitespace-only ticker invokes no
\* collaborator, and the desktop front end leaves the displayed results as
\* they were; otherwise every collaborator that takes the ticker receives
\* the input with surrounding whitespace removed and in upper case.
C15_BlankTickerIsRefused == [][C15_Step]_vars

C15_Witness ==
    /\ app = "desktop" /\ pc = "idle"
    /\ ticker_input_raw = <<" ", " ">>
    /\ calls = <<>>
    /\ output_text = <<"Analyzing", "Data", "Technical Indicators">> \o SubSeq(output_text, 4, Len(output_text))
    /\ Len(output_text) > 3

AfterShow == AfterMean \ {"show_news"}

C16_EventAnalysisOnFirstTitle ==
    (app = "web" /\ pc = "done" /\ MarketDataSucceeded) =>
        /\ Called("extract_financial_events") /\ Called("generate_signal")
        /\ ("No live news fetched" \in Range(output_text)) <=> (combined_news_titles = <<>>)
        /\ (CallsOf("extract_financial_events")[1].text = SampleText)
              <=> (combined_news_titles = <<>>)
        /\ combined_news_titles # <<>> =>
              /\ CallsOf("extract_financial_events")[1].text = combined_news_titles[1]
              /\ CallsOf("analyze_sentiment")[1].text = combined_news_titles[1]

\* C12: for every impact value, including one whose short-term level is not
\* recognized or is absent, generate_signal returns a defined signal and the
\* request does not end in an exception; two requests whose impacts have the
\* same short-term level get the same signal, whatever else differs.
C12_SignalTotalAndDeterministic ==
    /\ pc # "raised"
    /\ (pc = "done" /\ Called("generate_signal")) => event_signal \in Signals
    /\ ( /\ pc = "done" /\ Called("generate_signal")
         /\ ref.set /\ ref.signal # NoSignal
         /\ ref.env.impact.short_term = env.impact.short_term )
          => event_signal = ref.signal

C12_Witness ==
    /\ pc = "done" /\ Called("generate_signal")
    /\ env.impact = [short_term |-> "unrecognized", long_term |-> "positive"]
    /\ ref.set /\ ref.env.impact = [short_term |-> "unrecognized", long_term |-> Missing]
    /\ event_signal = "HOLD" /\ ref.signal = "HOLD"

====
